---- MODULE Spec2Model ----
(***************************************************************************)
(* Model of the Truth Social monitor's scheduler: the monitor process      *)
(* (src/main.py TrumpMonitor), the post store and scrape log               *)
(* (src/storage/database.py), the runtime configuration manager            *)
(* (src/runtime_config.py), the fetch client (src/scraper/                 *)
(* scrapecreators.py) and the REST handlers that write the configuration   *)
(* (src/api.py).                                                           *)
(*                                                                         *)
(* Time is an integer clock; one unit stands for 300 seconds, so the       *)
(* default normal interval of 3600 s is 12 and the default minimum gap of  *)
(* 300 s is 1.  Optional values are sequences of length at most one.       *)
(* A coroutine is cut at its awaits on the network: each action is the     *)
(* code that runs between two such awaits.                                  *)
(***************************************************************************)
EXTENDS Integers, Sequences, FiniteSets, TLC

\* ------------------------------------------------------------- bounds
MaxTime == 4
MaxPosts == 2
MaxEng == 1
MaxBatch == 2
MaxConfigTime == 2

\* ------------------------------------------------- program constants
EnvNormalInterval == 12
EnvSleepInterval == 72
EnvMinGap == 1
EnvSleepStart == 0
EnvSleepEnd == 7
NotifyLimit == 10

Cycles == {"boot", "timer"}
Hours == 0..23
PostIds == 1..MaxPosts
Engs == 0..MaxEng

\* ------------------------------------------------------ configuration
\* runtime_config.py: the three sections of RuntimeConfig.  feishu_webhook is
\* 0 for None and a positive number for a webhook URL (with its secret).
NotificationConfig(en, hook, rt) ==
    [feishu_enabled |-> en, feishu_webhook |-> hook, realtime_enabled |-> rt]

ScrapeConfig(en, normal, sleep, gap, start, end) ==
    [scrape_enabled |-> en,
     normal_scrape_interval |-> normal,
     sleep_scrape_interval |-> sleep,
     min_scrape_gap |-> gap,
     trump_sleep_start_hour |-> start,
     trump_sleep_end_hour |-> end]

TranslateConfig(en) == [translate_enabled |-> en]

RuntimeConfig(n, s, t) == [notification |-> n, scrape |-> s, translate |-> t]

\* RuntimeConfig(): the pydantic field defaults.
DefaultConfig ==
    RuntimeConfig(NotificationConfig(TRUE, 0, TRUE),
                  ScrapeConfig(TRUE, 12, 72, 1, 0, 7),
                  TranslateConfig(TRUE))

\* _init_from_env: the sections built from the environment settings.
InitFromEnv(env_hook) ==
    RuntimeConfig(NotificationConfig(TRUE, env_hook, TRUE),
                  ScrapeConfig(TRUE, EnvNormalInterval, EnvSleepInterval,
                               EnvMinGap, EnvSleepStart, EnvSleepEnd),
                  TranslateConfig(TRUE))

\* ------------------------------------------------- scheduling decisions
\* Variant: the quiet window closed at its end hour.
is_trump_sleeping_closed(c, h) ==
    c.scrape.trump_sleep_start_hour <= h /\ h <= c.scrape.trump_sleep_end_hour

\* is_trump_sleeping: the half-open hour test.
is_trump_sleeping(c, h) ==
    c.scrape.trump_sleep_start_hour <= h /\ h < c.scrape.trump_sleep_end_hour

\* get_current_interval
get_current_interval(c, h) ==
    IF is_trump_sleeping(c, h)
    THEN c.scrape.sleep_scrape_interval
    ELSE c.scrape.normal_scrape_interval

\* get_last_scrape_time: finished_at of the latest success entry, or None.
get_last_scrape_time(logs) ==
    LET ok == {i \in 1..Len(logs) : logs[i].status = "success"}
    IN IF ok = {} THEN <<>>
       ELSE LET i == CHOOSE k \in ok :
                       \A m \in ok : logs[m].finished_at <= logs[k].finished_at
            IN <<logs[i].finished_at>>

\* Variant: a cycle exactly the minimum gap after the last success is skipped too.
should_skip_scrape_inclusive(last_scrape, t, c) ==
    IF last_scrape = <<>> THEN FALSE
    ELSE (t - last_scrape[1]) <= c.scrape.min_scrape_gap

\* Variant: the last scrape time is not read from the log.
should_skip_scrape_unread(last_scrape, t, c) == FALSE

\* should_skip_scrape, given the value get_last_scrape_time returned.
should_skip_scrape(last_scrape, t, c) ==
    IF last_scrape = <<>> THEN FALSE
    ELSE (t - last_scrape[1]) < c.scrape.min_scrape_gap

\* log_scrape: one appended entry, finished_at = now.  Of the entry's fields
\* the model keeps the status and finished_at.
log_scrape(logs, status, t) ==
    Append(logs, [status |-> status, finished_at |-> t])

\* ------------------------------------------------------------ post store
\* A row: id (autoincrement key), post_id (unique), eng (the fetched mutable
\* fields, engagement counters among them), notified.
posted_at(r) == r.post_id

NextId(store) ==
    IF store = {} THEN 1
    ELSE 1 + (CHOOSE m \in {r.id : r \in store} : \A r \in store : r.id <= m)

\* parse_post_data: the canonical record of a raw post.
\* parse_post_data with the insert defaults of the row among its keys.
parse_post_data_defaults(raw) ==
    [post_id |-> raw.id, eng |-> raw.reblogs_count, notified |-> FALSE,
     llm_analysis |-> FALSE]

parse_post_data(raw) == [post_id |-> raw.id, eng |-> raw.reblogs_count]

\* POST_ALLOWED_FIELDS, for the attributes a row of the model has: the
\* translation is not among them.
POST_ALLOWED_FIELDS == {"post_id", "eng", "notified", "llm_analysis"}

\* _filter_post_data: the keys of the data that are allowed fields.
filter_post_data(d) == [k \in DOMAIN d \cap POST_ALLOWED_FIELDS |-> d[k]]

\* An update that replaces the existing row by a freshly inserted one.
replace_post(r, d) ==
    [id |-> r.id, post_id |-> r.post_id, eng |-> d.eng, notified |-> FALSE,
     translated_content |-> FALSE, llm_analysis |-> FALSE]

\* The update branch of save_posts_batch: every key of the filtered data but
\* post_id is set on the existing row.
update_post(r, d) ==
    LET f == filter_post_data(d)
    IN [k \in DOMAIN r |-> IF k \in DOMAIN f /\ k # "post_id" THEN f[k] ELSE r[k]]

RECURSIVE SaveLoop(_, _, _, _, _, _)
\* The loop of save_posts_batch: rows are the session's loaded rows with their
\* pending attribute changes, pending the added objects.  The session does not
\* autoflush, so the existence query sees the rows only, never the pending ones.
SaveLoop(rows, pending, batch, i, new_count, updated_count) ==
    IF i > Len(batch)
    THEN [rows |-> rows, pending |-> pending,
          new_count |-> new_count, updated_count |-> updated_count]
    ELSE LET d == batch[i]
             existing == {r \in rows : r.post_id = d.post_id}
         IN IF existing # {}
            THEN SaveLoop({IF r.post_id = d.post_id THEN update_post(r, d) ELSE r
                              : r \in rows},
                          pending, batch, i + 1, new_count, updated_count + 1)
            ELSE SaveLoop(rows, Append(pending, d), batch, i + 1,
                          new_count + 1, updated_count)

\* save_posts_batch: the loop, then the commit.  The commit inserts the pending
\* rows; two of them with one post_id break the unique index, the commit raises
\* and the session is closed without anything written.
save_posts_batch(store, batch) ==
    LET s == SaveLoop(store, <<>>, batch, 1, 0, 0)
        n == Len(s.pending)
        dup == \E i, j \in 1..n : i < j /\ s.pending[i].post_id = s.pending[j].post_id
        base == NextId(store)
        added == {[id |-> base + i - 1, post_id |-> s.pending[i].post_id,
                   eng |-> s.pending[i].eng, notified |-> FALSE,
                   translated_content |-> FALSE, llm_analysis |-> FALSE] : i \in 1..n}
    IN IF dup
       THEN [raised |-> TRUE, posts |-> store, new_count |-> 0, updated_count |-> 0]
       ELSE [raised |-> FALSE, posts |-> s.rows \cup added,
             new_count |-> s.new_count, updated_count |-> s.updated_count]

\* get_unnotified_posts: notified = False, newest first, at most limit rows.
get_unnotified_posts(store, limit) ==
    LET u == {r \in store : ~r.notified}
    IN {r \in u : Cardinality({q \in u : posted_at(q) > posted_at(r)}) < limit}

\* mark_posts_notified
mark_posts_notified(store, ids) ==
    {IF r.id \in ids THEN [r EXCEPT !.notified = TRUE] ELSE r : r \in store}

\* mark_all_posts_notified
mark_all_posts_notified(store) ==
    {[r EXCEPT !.notified = TRUE] : r \in store}

\* get_post_count
get_post_count(store) == Cardinality(store)

\* ------------------------------------------------- configuration manager
\* save_to_db: replaces the persisted row by the whole in-memory config;
\* a storage error is caught and reported as False.
save_to_db(mem, row, up) ==
    IF up THEN [ok |-> TRUE, row |-> <<mem>>] ELSE [ok |-> FALSE, row |-> row]

\* A persisted value that json.loads or the RuntimeConfig constructor rejects.
Unparseable == [unparseable |-> TRUE]

\* load_from_db falling back to the environment's config when the load fails.
load_from_db_fallback(mem, row, up, env) ==
    IF ~up \/ (row # <<>> /\ row[1] = Unparseable)
    THEN [ok |-> FALSE, mem |-> InitFromEnv(env), row |-> row]
    ELSE IF row # <<>> THEN [ok |-> TRUE, mem |-> row[1], row |-> row]
    ELSE [ok |-> TRUE, mem |-> InitFromEnv(env),
          row |-> save_to_db(InitFromEnv(env), row, up).row]

\* load_from_db: the persisted row replaces the in-memory config; with no row
\* the config is built from the environment and saved; a storage error or an
\* unparseable row is caught and leaves the in-memory config as it was.
load_from_db(mem, row, up, env) ==
    IF ~up \/ (row # <<>> /\ row[1] = Unparseable)
    THEN [ok |-> FALSE, mem |-> mem, row |-> row]
    ELSE IF row # <<>> THEN [ok |-> TRUE, mem |-> row[1], row |-> row]
    ELSE [ok |-> TRUE, mem |-> InitFromEnv(env),
          row |-> save_to_db(InitFromEnv(env), row, up).row]

\* ------------------------------------------------------------ scheduler
\* The scrape job of the timer subsystem: <<>> when no job was added, else its
\* period and next fire time.  An interval trigger first fires one period
\* after it is created.
IntervalJob(period, t) == <<[period |-> period, next |-> t + period]>>

\* _reschedule_job: rearms the scrape job with current_interval; a missing job
\* makes the timer subsystem raise, which is caught and logged.
reschedule_job(jobv, interval, t) ==
    IF jobv = <<>> THEN jobv ELSE IntervalJob(interval, t)

\* fetch_latest_posts: the page of raw posts, or [] when the request raised.
FetchMax == 20
MaxAttempts == 3
fetch_latest_posts(api) ==
    IF api.ok THEN SubSeq(api.posts, 1, IF Len(api.posts) < FetchMax THEN Len(api.posts) ELSE FetchMax)
    ELSE <<>>

\* scrape_and_notify up to its first await: the skip decision and the interval
\* reconciliation.  The storage read of the skip decision is outside the try.
scrape_begin(c, ifr, ci, jobv, t, h, store, logs, up) ==
    IF ~up
    THEN [raised |-> TRUE, run |-> FALSE, is_first_run |-> ifr,
          current_interval |-> ci, job |-> jobv]
    ELSE IF should_skip_scrape(get_last_scrape_time(logs), t, c)
    THEN [raised |-> FALSE, run |-> FALSE,
          is_first_run |-> IF ifr /\ get_post_count(store) > 0 THEN FALSE ELSE ifr,
          current_interval |-> ci, job |-> jobv]
    ELSE LET new_interval == get_current_interval(c, h)
         IN IF new_interval # ci
            THEN [raised |-> FALSE, run |-> TRUE, is_first_run |-> ifr,
                  current_interval |-> new_interval,
                  job |-> reschedule_job(jobv, new_interval, t)]
            ELSE [raised |-> FALSE, run |-> TRUE, is_first_run |-> ifr,
                  current_interval |-> ci, job |-> jobv]

\* The branch of scrape_and_notify taken for new_count new rows.
classify(new_count, client, c, ifr) ==
    IF new_count > 0 /\ client # 0 /\ c.notification.realtime_enabled
    THEN IF ifr THEN "suppressAsBacklog" ELSE "notify"
    ELSE IF new_count > 0 /\ ~c.notification.realtime_enabled
    THEN "suppressDisabled"
    ELSE "none"

\* scrape_and_notify from the return of the fetch to its next await (the push)
\* or to its end.  sel is the set of rows handed to the notifier; escaped says
\* that an exception left scrape_and_notify.
scrape_after_fetch(raw_posts, store, logs, t, up, c, client, ifr) ==
    LET none == [posts |-> store, logs |-> logs, sel |-> {}, escaped |-> FALSE,
                 new_count |-> 0, new_ids |-> {}, class |-> "none", logged |-> "none"]
    IN IF ~up
       THEN \* the storage call in the try raises, and so does the handler's log_scrape
            [none EXCEPT !.escaped = TRUE]
       ELSE IF raw_posts = <<>>
       THEN [none EXCEPT !.logs = log_scrape(logs, "success", t),
                         !.logged = "success"]
       ELSE LET saved == save_posts_batch(store,
                             [i \in 1..Len(raw_posts) |-> parse_post_data(raw_posts[i])])
            IN IF saved.raised
               THEN [none EXCEPT !.logs = log_scrape(logs, "failed", t),
                                 !.logged = "failed"]
               ELSE LET k == classify(saved.new_count, client, c, ifr)
                        done == [none EXCEPT
                                   !.logs = log_scrape(logs, "success", t),
                                   !.logged = "success",
                                   !.posts = saved.posts,
                                   !.new_count = saved.new_count,
                                   !.new_ids = {r.post_id : r \in saved.posts}
                                               \ {r.post_id : r \in store},
                                   !.class = k]
                    IN IF k \in {"suppressAsBacklog", "suppressDisabled"}
                       THEN [done EXCEPT !.posts = mark_all_posts_notified(saved.posts)]
                       ELSE IF k = "notify"
                       THEN [done EXCEPT !.sel =
                               {r.id : r \in get_unnotified_posts(saved.posts, NotifyLimit)}]
                       ELSE done

\* Variant: the selected rows are marked whatever the push returned.
after_push_unconditional(store, sel, success, up) ==
    IF up THEN mark_posts_notified(store, sel) ELSE store

\* send_notifications after the push returned: mark only on success; a storage
\* error while marking is caught.
after_push(store, sel, success, up) ==
    IF success /\ up THEN mark_posts_notified(store, sel) ELSE store

\* ------------------------------------------------------------------ state
VARIABLES
    now,              \* the clock
    hour,             \* hour of day in the reference timezone
    dbUp,             \* whether storage calls succeed
    shared,           \* the REST API runs in the monitor's process (server.py)
    env_hook,         \* settings.feishu_webhook_url (0: not set)
    db_config,        \* the persisted runtime_config row, <<>> when absent
    config,           \* the monitor process's RuntimeConfigManager._config
    api_config,       \* that of a separate API process (unused when shared)
    posts,            \* the posts table
    scrape_logs,      \* the scrape_logs table, append-only
    phase,            \* of start(): init, booting, running, stopped, crashed
    scheduler,        \* the timer subsystem: none, running, shutdown
    api_req,          \* the REST config update in progress in the API thread, or <<>>
    is_first_run,
    current_interval,
    feishu,           \* the notifier client's webhook, 0 for no client
    job,              \* the scrape job of the timer subsystem
    cyc,              \* the executions of scrape_and_notify in progress
    ev                \* the last step taken by the monitor, for the properties

vars == <<now, hour, dbUp, shared, api_req, env_hook, db_config, config, api_config, posts,
          scrape_logs, phase, scheduler, is_first_run, current_interval, feishu, job, cyc,
          ev>>

Idle == [pc |-> "idle", sel |-> {}]

\* What the model draws its inputs from.
StartHours == {6, 23}
ScrapePayloads ==
    {ScrapeConfig(TRUE, 6, 72, 1, 0, 7), ScrapeConfig(TRUE, 2, 12, 2, 3, 3)}
NotificationPayloads ==
    {NotificationConfig(TRUE, 1, TRUE), NotificationConfig(TRUE, 1, FALSE)}
PersistedRows ==
    {<<>>} \cup
    {<<RuntimeConfig(NotificationConfig(TRUE, 1, rt),
                     ScrapeConfig(TRUE, 2, 12, 2, 0, 7), TranslateConfig(TRUE))>>
        : rt \in BOOLEAN}
\* What an earlier life of the process may have left in the store.
SuccessAtZero == <<[status |-> "success", finished_at |-> 0]>>
EarlierStores ==
    {[posts |-> {}, logs |-> <<>>], [posts |-> {}, logs |-> SuccessAtZero]}
    \cup {[posts |-> {[id |-> 1, post_id |-> 1, eng |-> 0, notified |-> n,
                        translated_content |-> n, llm_analysis |-> n]},
           logs |-> SuccessAtZero] : n \in BOOLEAN}
\* A page of the fetch API: up to MaxBatch raw posts, the same post possibly
\* twice, with the engagement counters as they stand at the fetch.
IdLists == UNION {[1..n -> PostIds] : n \in 0..MaxBatch}
Pages ==
    {[i \in 1..Len(ids) |-> [id |-> ids[i], reblogs_count |-> e]]
        : ids \in IdLists, e \in Engs}
ApiResponses == {[ok |-> FALSE, posts |-> <<>>]} \cup {[ok |-> TRUE, posts |-> p] : p \in Pages}

InitWith(deployments) ==
    /\ now = 0
    /\ hour \in StartHours
    /\ dbUp = TRUE
    /\ shared \in deployments
    /\ env_hook \in {0, 1}
    /\ db_config \in PersistedRows
    /\ config = DefaultConfig
    /\ api_config = DefaultConfig
    /\ \E e \in EarlierStores : posts = e.posts /\ scrape_logs = e.logs
    /\ phase = "init"
    /\ scheduler = "none"
    /\ api_req = <<>>
    /\ is_first_run = TRUE
    /\ current_interval = EnvNormalInterval
    /\ feishu = 0
    /\ job = <<>>
    /\ cyc = [c \in Cycles |-> Idle]
    /\ ev = [kind |-> "none"]

\* ---------------------------------------------------------------- actions
Scheduling == phase \in {"booting", "running"}

\* The event loop runs: the executions of scrape_and_notify in progress go on,
\* also after stop().
Executing == phase \in {"booting", "running", "stopped"}

\* The timer subsystem fires its jobs.
TimersRun == Executing /\ scheduler = "running"

\* The return of scrape_and_notify in execution c.  The start-up execution is
\* awaited by start(), which then clears is_first_run; an exception that leaves
\* it leaves start() too, and the process's event loop with its timers ends.
Finish(c, escaped) ==
    /\ cyc' = IF c = "boot" /\ escaped THEN [k \in Cycles |-> Idle]
              ELSE [cyc EXCEPT ![c] = Idle]
    /\ phase' = IF c = "boot"
                THEN (IF escaped THEN "crashed"
                      ELSE IF phase = "stopped" THEN "stopped" ELSE "running")
                ELSE phase
    /\ is_first_run' = IF c = "boot" /\ ~escaped THEN FALSE ELSE is_first_run

\* init(): the notifier client from the runtime config, else from the environment.
init_feishu(c, env) ==
    IF c.notification.feishu_enabled /\ c.notification.feishu_webhook # 0
    THEN c.notification.feishu_webhook
    ELSE env

\* start(): init(), the initial interval, the jobs, the start-up decision and,
\* when it says so, scrape_and_notify up to its first await.
Start ==
    /\ phase = "init"
    /\ scheduler' = IF dbUp THEN "running" ELSE scheduler
    /\ IF ~dbUp
       THEN \* init_db raises
            /\ phase' = "crashed"
            /\ ev' = [kind |-> "start", raised |-> TRUE]
            /\ UNCHANGED <<config, db_config, feishu, current_interval, job,
                           is_first_run, cyc>>
       ELSE LET ld == load_from_db(config, db_config, dbUp, env_hook)
                c == ld.mem
                ci == get_current_interval(c, hour)
                jb == IF c.scrape.scrape_enabled THEN IntervalJob(ci, now) ELSE <<>>
                last == get_last_scrape_time(scrape_logs)
                too_soon == /\ c.scrape.scrape_enabled
                            /\ last # <<>>
                            /\ (now - last[1]) < c.scrape.min_scrape_gap
                ifr == IF too_soon /\ get_post_count(posts) > 0 THEN FALSE ELSE is_first_run
                b == scrape_begin(c, ifr, ci, jb, now, hour, posts, scrape_logs, dbUp)
            IN /\ config' = c
               /\ db_config' = ld.row
               /\ feishu' = init_feishu(c, env_hook)
               /\ IF ~too_soon /\ c.scrape.scrape_enabled
                  THEN /\ current_interval' = b.current_interval
                       /\ job' = b.job
                       /\ ev' = [kind |-> "decide", c |-> "boot", at |-> now, last |-> last,
                                 gap |-> c.scrape.min_scrape_gap, skip |-> ~b.run,
                                 raised |-> b.raised]
                       /\ IF b.run
                          THEN /\ cyc' = [cyc EXCEPT !["boot"] =
                                            [pc |-> "fetching", sel |-> {}]]
                               /\ phase' = "booting"
                               /\ is_first_run' = b.is_first_run
                          ELSE Finish("boot", b.raised)
                  ELSE /\ current_interval' = ci
                       /\ job' = jb
                       /\ is_first_run' = ifr
                       /\ phase' = "running"
                       /\ cyc' = cyc
                       /\ ev' = IF too_soon
                                THEN [kind |-> "decide", c |-> "boot", at |-> now, last |-> last,
                                      gap |-> c.scrape.min_scrape_gap, skip |-> TRUE,
                                      raised |-> FALSE]
                                ELSE [kind |-> "start", raised |-> FALSE]
    /\ UNCHANGED <<now, hour, dbUp, shared, api_req, env_hook, api_config, posts, scrape_logs>>

\* The scrape job fires.  The timer subsystem runs at most one instance of a job:
\* a fire while the last one is still running is skipped.
TimerFire ==
    /\ TimersRun
    /\ job # <<>>
    /\ job[1].next = now
    /\ LET jb == <<[job[1] EXCEPT !.next = now + job[1].period]>>
           b == scrape_begin(config, is_first_run, current_interval, jb, now, hour,
                             posts, scrape_logs, dbUp)
       IN IF cyc["timer"].pc # "idle"
          THEN /\ job' = jb
               /\ ev' = [kind |-> "missed"]
               /\ UNCHANGED <<current_interval, is_first_run, cyc>>
          ELSE /\ job' = b.job
               /\ current_interval' = b.current_interval
               /\ is_first_run' = b.is_first_run
               /\ ev' = [kind |-> "decide", c |-> "timer", at |-> now,
                         last |-> get_last_scrape_time(scrape_logs),
                         gap |-> config.scrape.min_scrape_gap, skip |-> ~b.run,
                         raised |-> b.raised]
               /\ cyc' = IF b.run
                         THEN [cyc EXCEPT !["timer"] =
                                 [pc |-> "fetching", sel |-> {}]]
                         ELSE cyc
    /\ UNCHANGED <<now, hour, dbUp, shared, api_req, env_hook, db_config, config, api_config,
                   posts, scrape_logs, phase, scheduler, feishu>>

\* The fetch returns to execution c: the rest of scrape_and_notify up to the push.
FetchReturn(c, api) ==
    /\ Executing
    /\ cyc[c].pc = "fetching"
    /\ LET r == scrape_after_fetch(fetch_latest_posts(api), posts, scrape_logs,
                                   now, dbUp, config, feishu, is_first_run)
       IN /\ posts' = r.posts
          /\ scrape_logs' = r.logs
          /\ ev' = [kind |-> "fetched", c |-> c, fetch_ok |-> api.ok,
                    submitted |-> {api.posts[i].id : i \in 1..Len(api.posts)},
                    new_count |-> r.new_count, new_ids |-> r.new_ids, class |-> r.class,
                    logged |-> r.logged, escaped |-> r.escaped,
                    first_run |-> is_first_run,
                    last_before |-> get_last_scrape_time(scrape_logs)]
          /\ IF r.sel # {}
             THEN /\ cyc' = [cyc EXCEPT ![c] = [@ EXCEPT !.pc = "pushing", !.sel = r.sel]]
                  /\ UNCHANGED <<phase, is_first_run>>
             ELSE Finish(c, r.escaped)
    /\ UNCHANGED <<now, hour, dbUp, shared, api_req, env_hook, db_config, config, api_config,
                   scheduler, current_interval, feishu, job>>

\* The push returns to execution c: the rest of send_notifications.
PushReturn(c, success) ==
    /\ Executing
    /\ cyc[c].pc = "pushing"
    /\ posts' = after_push(posts, cyc[c].sel, success, dbUp)
    /\ ev' = [kind |-> "pushed", c |-> c, ok |-> success, sel |-> cyc[c].sel]
    /\ Finish(c, FALSE)
    /\ UNCHANGED <<now, hour, dbUp, shared, api_req, env_hook, db_config, config, api_config,
                   scrape_logs, scheduler, current_interval, feishu, job>>

\* _reload_config, the job that fires every five minutes.
ReloadTick ==
    /\ TimersRun
    /\ LET old == config
           ld == load_from_db(config, db_config, dbUp, env_hook)
           new == ld.mem
           interval_changed ==
               \/ old.scrape.normal_scrape_interval # new.scrape.normal_scrape_interval
               \/ old.scrape.sleep_scrape_interval # new.scrape.sleep_scrape_interval
           new_interval == get_current_interval(new, hour)
           resched == interval_changed /\ new_interval # current_interval
           hook_changed ==
               old.notification.feishu_webhook # new.notification.feishu_webhook
       IN /\ config' = new
          /\ db_config' = ld.row
          /\ current_interval' = IF resched THEN new_interval ELSE current_interval
          /\ job' = IF resched THEN reschedule_job(job, new_interval, now) ELSE job
          /\ feishu' = IF /\ hook_changed
                          /\ new.notification.feishu_enabled
                          /\ new.notification.feishu_webhook # 0
                       THEN new.notification.feishu_webhook
                       ELSE feishu
          /\ ev' = [kind |-> "reload", ok |-> ld.ok, rescheduled |-> resched,
                    row |-> ld.row]
    /\ UNCHANGED <<now, hour, dbUp, shared, api_req, env_hook, api_config, posts, scrape_logs,
                   phase, scheduler, is_first_run, cyc>>

\* Variant: stop() only clears the running flag.
stop_running_only(sched) == sched

\* stop(): what becomes of the timer subsystem.
stop(sched) == "shutdown"

\* stop(), called by the signal handler of main(): the one deployment that calls
\* it runs the monitor without the REST API.  The loop of start() ends with the
\* running flag; the scheduler is shut down without waiting, and the timer-fired
\* execution in progress is abandoned at its await or goes on, as the timer
\* subsystem has it.
Stop(abandon) ==
    /\ Scheduling
    /\ ~shared
    /\ phase' = "stopped"
    /\ scheduler' = stop(scheduler)
    /\ cyc' = IF abandon THEN [cyc EXCEPT !["timer"] = Idle] ELSE cyc
    /\ ev' = [kind |-> "stop", abandoned |-> abandon /\ cyc["timer"].pc # "idle"]
    /\ UNCHANGED <<now, hour, dbUp, shared, api_req, env_hook, db_config, config, api_config,
                   posts, scrape_logs, is_first_run, current_interval, feishu, job>>

\* The REST handlers work on the manager of their process: the monitor's own
\* when the API runs in the monitor's process.  They run one at a time in the
\* API's event loop, in a thread of its own beside the monitor's.
ApiManager == IF shared THEN config ELSE api_config

SetApiManager(m) ==
    IF shared THEN config' = m /\ UNCHANGED api_config
    ELSE api_config' = m /\ UNCHANGED config

\* PUT /api/settings/scrape -> update_scrape
ApiUpdateScrape(p) ==
    /\ api_req = <<>>
    /\ LET m == [ApiManager EXCEPT !.scrape = p]
       IN /\ SetApiManager(m)
          /\ db_config' = save_to_db(m, db_config, dbUp).row
    /\ UNCHANGED <<now, hour, dbUp, shared, api_req, env_hook, posts, scrape_logs, phase, scheduler,
                   is_first_run, current_interval, feishu, job, cyc, ev>>

\* PUT /api/settings/notification -> update_notification
ApiUpdateNotification(p) ==
    /\ api_req = <<>>
    /\ LET m == [ApiManager EXCEPT !.notification = p]
       IN /\ SetApiManager(m)
          /\ db_config' = save_to_db(m, db_config, dbUp).row
    /\ UNCHANGED <<now, hour, dbUp, shared, api_req, env_hook, posts, scrape_logs, phase, scheduler,
                   is_first_run, current_interval, feishu, job, cyc, ev>>

\* update_scrape / update_notification as the API thread runs them beside the
\* monitor thread, first statement: the section of the manager's config is
\* assigned.
ApiUpdateAssign(section, p) ==
    /\ api_req = <<>>
    /\ SetApiManager([ApiManager EXCEPT ![section] = p])
    /\ api_req' = <<[section |-> section, payload |-> p]>>
    /\ UNCHANGED <<now, hour, dbUp, shared, env_hook, db_config, posts, scrape_logs, phase,
                   scheduler, is_first_run, current_interval, feishu, job, cyc, ev>>

\* Second statement: save_to_db dumps the config the manager holds by now, and
\* the handler answers with what save_to_db returned.
ApiUpdateSave ==
    /\ api_req # <<>>
    /\ db_config' = save_to_db(ApiManager, db_config, dbUp).row
    /\ api_req' = <<>>
    /\ ev' = [kind |-> "updated", ok |-> save_to_db(ApiManager, db_config, dbUp).ok,
              section |-> api_req[1].section, payload |-> api_req[1].payload]
    /\ UNCHANGED <<now, hour, dbUp, shared, env_hook, config, api_config, posts,
                   scrape_logs, phase, scheduler, is_first_run, current_interval, feishu,
                   job, cyc>>

\* GET /api/settings: load_from_db on the handler's manager.
ApiGetSettings ==
    /\ api_req = <<>>
    /\ LET ld == load_from_db(ApiManager, db_config, dbUp, env_hook)
       IN /\ SetApiManager(ld.mem)
          /\ db_config' = ld.row
    /\ UNCHANGED <<now, hour, dbUp, shared, api_req, env_hook, posts, scrape_logs, phase, scheduler,
                   is_first_run, current_interval, feishu, job, cyc, ev>>

\* Variant: the posts of the report are marked notified whatever the push
\* returned.
push_report_marking(rt, in_range, out, c, store, up) ==
    [status |-> 200, success |-> out = "ok", message |-> "done", called |-> TRUE,
     posts |-> {IF r \in in_range THEN [r EXCEPT !.notified = TRUE] ELSE r : r \in store}]

\* Variant: a daily push that failed is answered like an empty range.
push_report_silent(rt, in_range, out, c, store, up) ==
    IF out = "ok"
    THEN [status |-> 200, success |-> TRUE, message |-> "daily_done", called |-> TRUE,
          posts |-> store]
    ELSE [status |-> 200, success |-> TRUE, message |-> "daily_none", called |-> TRUE,
          posts |-> store]

\* push_report after its load_from_db: rt is the report type, in_range the rows
\* of the report's time range, out what the webhook call does (ok, fail: it
\* returns False, raise).  The answer is the HTTP status with the body's success
\* and message; called says that the client's send method was called.  The
\* weekly branch calls send_weekly_report with keywords the client's method
\* does not have, which raises before anything is sent.  No branch writes a row.
push_report(rt, in_range, out, c, store, up) ==
    LET error(code, sent) == [status |-> code, success |-> FALSE, message |-> "error",
                              called |-> sent, posts |-> store]
        done(msg) == [status |-> 200, success |-> out = "ok", message |-> msg,
                      called |-> TRUE, posts |-> store]
        nothing(msg) == [status |-> 200, success |-> TRUE, message |-> msg,
                         called |-> FALSE, posts |-> store]
    IN IF ~c.notification.feishu_enabled \/ c.notification.feishu_webhook = 0
       THEN error(400, FALSE)
       ELSE IF rt = "test"
       THEN IF out = "raise" THEN error(500, TRUE)
            ELSE done(IF out = "ok" THEN "test_done" ELSE "push_failed")
       ELSE IF ~up THEN error(500, FALSE)
       ELSE IF in_range = {} THEN nothing(IF rt = "daily" THEN "daily_none" ELSE "weekly_none")
       ELSE IF rt = "daily"
       THEN IF out = "raise" THEN error(500, TRUE) ELSE done("daily_done")
       ELSE error(500, TRUE)

ReportTypes == {"test", "daily", "weekly"}
PushOutcomes == {"ok", "fail", "raise"}

\* POST /api/settings/push-report.  cutoff stands for the start of the report's
\* time range: the rows posted at or after it are in the range.
ApiPushReport(rt, cutoff, out) ==
    /\ api_req = <<>>
    /\ LET ld == load_from_db(ApiManager, db_config, dbUp, env_hook)
           in_range == {r \in posts : posted_at(r) >= cutoff}
           a == push_report(rt, in_range, out, ld.mem, posts, dbUp)
       IN /\ SetApiManager(ld.mem)
          /\ db_config' = ld.row
          /\ posts' = a.posts
          /\ ev' = [kind |-> "report", type |-> rt, out |-> out, status |-> a.status,
                    success |-> a.success, message |-> a.message, called |-> a.called,
                    range_empty |-> (in_range = {})]
    /\ UNCHANGED <<now, hour, dbUp, shared, api_req, env_hook, scrape_logs, phase, scheduler,
                   is_first_run, current_interval, feishu, job, cyc>>

\* Time passes; a due scrape job fires before it passes further.
Tick ==
    /\ now < MaxTime
    /\ ~(TimersRun /\ job # <<>> /\ job[1].next = now)
    /\ now' = now + 1
    /\ UNCHANGED <<hour, dbUp, shared, api_req, env_hook, db_config, config, api_config, posts,
                   scrape_logs, phase, scheduler, is_first_run, current_interval, feishu, job, cyc, ev>>

\* The reference timezone's clock passes an hour boundary.
HourTick ==
    /\ hour \in StartHours
    /\ hour' = (hour + 1) % 24
    /\ UNCHANGED <<now, dbUp, shared, api_req, env_hook, db_config, config, api_config, posts,
                   scrape_logs, phase, scheduler, is_first_run, current_interval, feishu, job, cyc, ev>>

\* The database becomes unreachable, or reachable again.
DbFlip ==
    /\ dbUp' = ~dbUp
    /\ UNCHANGED <<now, hour, shared, api_req, env_hook, db_config, config, api_config, posts,
                   scrape_logs, phase, scheduler, is_first_run, current_interval, feishu, job, cyc, ev>>

\* The monitor's cycles, with the configuration as the process found it.
Init == InitWith({TRUE})

Next ==
    \/ Start
    \/ TimerFire
    \/ \E c \in Cycles, api \in ApiResponses : FetchReturn(c, api)
    \/ \E c \in Cycles, success \in BOOLEAN : PushReturn(c, success)
    \/ Tick
    \/ HourTick
    \/ DbFlip

Spec == Init /\ [][Next]_vars

\* The monitor with the REST API writing the configuration, in the monitor's
\* process or in one of its own, started at 23h on an empty store; the fetch
\* returns a page of one post at most.
InitConfig ==
    /\ now = 0
    /\ hour = 23
    /\ dbUp = TRUE
    /\ shared \in BOOLEAN
    /\ env_hook = 1
    /\ db_config \in {r \in PersistedRows : r = <<>> \/ r[1].notification.realtime_enabled}
    /\ config = DefaultConfig
    /\ api_config = DefaultConfig
    /\ posts = {}
    /\ scrape_logs = <<>>
    /\ phase = "init"
    /\ scheduler = "none"
    /\ api_req = <<>>
    /\ is_first_run = TRUE
    /\ current_interval = EnvNormalInterval
    /\ feishu = 0
    /\ job = <<>>
    /\ cyc = [c \in Cycles |-> Idle]
    /\ ev = [kind |-> "none"]

SmallResponses == {r \in ApiResponses : Len(r.posts) <= 1 /\ \A i \in 1..Len(r.posts) : r.posts[i].reblogs_count = 0}

TickConfig == now < MaxConfigTime /\ Tick

NextConfig ==
    \/ Start
    \/ TimerFire
    \/ \E c \in Cycles, api \in SmallResponses : FetchReturn(c, api)
    \/ \E c \in Cycles, success \in BOOLEAN : PushReturn(c, success)
    \/ ReloadTick
    \/ \E p \in ScrapePayloads : ApiUpdateScrape(p)
    \/ \E p \in NotificationPayloads : ApiUpdateNotification(p)
    \/ ApiGetSettings
    \/ TickConfig
    \/ HourTick
    \/ DbFlip

SpecConfig == InitConfig /\ [][NextConfig]_vars

\* The manual report requests, among the cycles of a monitor started at 23h and
\* against the store as they and an earlier life of the process left it.
InitReport == InitWith(BOOLEAN) /\ hour = 23

NextReport ==
    \/ Start
    \/ TimerFire
    \/ TickConfig
    \/ \E c \in Cycles, api \in SmallResponses : FetchReturn(c, api)
    \/ \E c \in Cycles, success \in BOOLEAN : PushReturn(c, success)
    \/ \E rt \in ReportTypes, cutoff \in 1..(MaxPosts + 1), out \in PushOutcomes :
          ApiPushReport(rt, cutoff, out)
    \/ DbFlip

SpecReport == InitReport /\ [][NextReport]_vars

\* The monitor run by main(), with its signal handler: cycles, reload ticks, the
\* hour of day passing a boundary, and stop().  Nothing writes the configuration.
InitStop == InitWith({FALSE})

NextStop ==
    \/ Start
    \/ TimerFire
    \/ \E c \in Cycles, api \in SmallResponses : FetchReturn(c, api)
    \/ \E c \in Cycles, success \in BOOLEAN : PushReturn(c, success)
    \/ ReloadTick
    \/ \E abandon \in BOOLEAN : Stop(abandon)
    \/ Tick
    \/ HourTick
    \/ DbFlip

SpecStop == InitStop /\ [][NextStop]_vars

\* The scrape log as its one reader, get_last_scrape_time, sees it after d time
\* units: the last successful entry, its age capped at the minimum gap.
elapse_logs(logs, d, t, gap) ==
    LET last == get_last_scrape_time(logs)
    IN IF last = <<>> THEN <<>>
       ELSE <<[status |-> "success",
               finished_at |-> IF last[1] - d < t - gap THEN t - gap ELSE last[1] - d]>>

\* The interval of the scrape job elapses.  The clock is kept where it is and
\* the times held in the state are moved back instead, so that the monitor can
\* run for ever in a finite state space.
Elapse ==
    /\ TimersRun
    /\ job # <<>>
    /\ job[1].next > now
    /\ job' = <<[job[1] EXCEPT !.next = now]>>
    /\ scrape_logs' = elapse_logs(scrape_logs, job[1].next - now, now,
                                  config.scrape.min_scrape_gap)
    /\ UNCHANGED <<now, hour, dbUp, shared, api_req, env_hook, db_config, config, api_config, posts,
                   phase, scheduler, is_first_run, current_interval, feishu, cyc, ev>>

\* The monitor running for ever: the scrape job keeps firing, every await
\* returns, and a push that is tried again and again succeeds in the end.
NextLive ==
    \/ Start
    \/ Elapse
    \/ TimerFire
    \/ \E c \in Cycles, api \in ApiResponses : FetchReturn(c, api)
    \/ \E c \in Cycles, success \in BOOLEAN : PushReturn(c, success)

SpecLive ==
    /\ Init
    /\ [][NextLive]_vars
    /\ WF_vars(Start)
    /\ WF_vars(Elapse)
    /\ WF_vars(TimerFire)
    /\ WF_vars(\E c \in Cycles, api \in ApiResponses : FetchReturn(c, api))
    /\ SF_vars(\E c \in Cycles : PushReturn(c, TRUE))

\* What the fetch API may answer to one request; "error" is a network error.
HttpAnswers == {"200", "401", "429", "500", "error"}

\* _request under its retry decorator, one attempt: every answer but 200 raises,
\* and whatever was raised the call is tried again until the third attempt.
request_attempt(tried, answer) ==
    [answers |-> Append(tried, answer),
     done |-> (answer = "200" \/ Len(tried) + 1 >= MaxAttempts),
     ok |-> (answer = "200")]

\* One HTTP request of the fetch of execution c is answered.
HttpAnswer(c, answer) ==
    /\ Executing
    /\ cyc[c].pc = "fetching"
    /\ ~(ev.kind = "request" /\ ev.done)
    /\ LET tried == IF ev.kind = "request" THEN ev.answers ELSE <<>>
           a == request_attempt(tried, answer)
       IN ev' = [kind |-> "request", c |-> c, answers |-> a.answers,
                 done |-> a.done, ok |-> a.ok]
    /\ UNCHANGED <<now, hour, dbUp, shared, api_req, env_hook, db_config, config, api_config, posts,
                   scrape_logs, phase, scheduler, is_first_run, current_interval, feishu,
                   job, cyc>>

\* fetch_latest_posts returns once _request has: the page of the 200 answer, or
\* the empty list when _request gave up.
FetchAfterRequests(c, api) ==
    /\ ev.kind = "request"
    /\ ev.c = c
    /\ ev.done
    /\ api.ok = ev.ok
    /\ FetchReturn(c, api)

\* The start-up cycle with the HTTP requests of its fetch.
NextFetch ==
    \/ Start
    \/ \E c \in Cycles, answer \in HttpAnswers : HttpAnswer(c, answer)
    \/ \E c \in Cycles, api \in SmallResponses : FetchAfterRequests(c, api)

SpecFetch == Init /\ [][NextFetch]_vars

\* A REST config update that arrives once the monitor's thread has started.
ApiUpdateBesideMonitor(section, p) == Scheduling /\ ApiUpdateAssign(section, p)

\* The REST config updates statement by statement, beside the reload ticks and
\* cycles of a monitor that has started, in the monitor's process or in one of
\* their own.
NextRace ==
    \/ Start
    \/ TimerFire
    \/ \E c \in Cycles, api \in SmallResponses : FetchReturn(c, api)
    \/ \E c \in Cycles, success \in BOOLEAN : PushReturn(c, success)
    \/ ReloadTick
    \/ \E p \in ScrapePayloads : ApiUpdateBesideMonitor("scrape", p)
    \/ \E p \in NotificationPayloads : ApiUpdateBesideMonitor("notification", p)
    \/ ApiUpdateSave
    \/ ApiGetSettings
    \/ TickConfig
    \/ DbFlip

SpecRace == InitConfig /\ [][NextRace]_vars

\* Scrape settings with scraping on and off, at two normal intervals.
TogglePayloads == {ScrapeConfig(en, n, 12, 2, 0, 7) : en \in BOOLEAN, n \in {2, 3}}

\* The monitor with scraping switched off and on through the REST API.
NextToggle ==
    \/ Start
    \/ TimerFire
    \/ \E c \in Cycles, api \in SmallResponses : FetchReturn(c, api)
    \/ \E c \in Cycles, success \in BOOLEAN : PushReturn(c, success)
    \/ ReloadTick
    \/ \E p \in TogglePayloads : ApiUpdateScrape(p)
    \/ TickConfig
    \/ DbFlip

SpecToggle == InitConfig /\ [][NextToggle]_vars

\* Everything that writes the posts table or runs beside its writers: the
\* cycles, the reload tick, and the REST API in the monitor's process updating
\* the notification settings and pushing manual reports.
InitNotified == InitWith({TRUE}) /\ hour = 23

NextNotified ==
    \/ Start
    \/ TimerFire
    \/ TickConfig
    \/ \E c \in Cycles, api \in SmallResponses : FetchReturn(c, api)
    \/ \E c \in Cycles, success \in BOOLEAN : PushReturn(c, success)
    \/ ReloadTick
    \/ \E p \in NotificationPayloads : ApiUpdateNotification(p)
    \/ \E rt \in ReportTypes, cutoff \in 1..(MaxPosts + 1), out \in PushOutcomes :
          ApiPushReport(rt, cutoff, out)
    \/ DbFlip

SpecNotified == InitNotified /\ [][NextNotified]_vars

\* The monitor in its own process beside the REST API's, started on a persisted
\* configuration that may be unparseable; the database comes and goes.
InitReload ==
    /\ now = 0
    /\ hour = 23
    /\ dbUp = TRUE
    /\ shared = FALSE
    /\ env_hook = 1
    /\ db_config \in {r \in PersistedRows : r # <<>> /\ r[1].notification.realtime_enabled}
                     \cup {<<Unparseable>>}
    /\ config = DefaultConfig
    /\ api_config = DefaultConfig
    /\ posts = {}
    /\ scrape_logs = <<>>
    /\ phase = "init"
    /\ scheduler = "none"
    /\ api_req = <<>>
    /\ is_first_run = TRUE
    /\ current_interval = EnvNormalInterval
    /\ feishu = 0
    /\ job = <<>>
    /\ cyc = [c \in Cycles |-> Idle]
    /\ ev = [kind |-> "none"]

NextReload ==
    \/ Start
    \/ TimerFire
    \/ \E c \in Cycles, api \in SmallResponses : FetchReturn(c, api)
    \/ \E c \in Cycles, success \in BOOLEAN : PushReturn(c, success)
    \/ ReloadTick
    \/ \E p \in ScrapePayloads : ApiUpdateScrape(p)
    \/ \E p \in NotificationPayloads : ApiUpdateNotification(p)
    \/ TickConfig
    \/ DbFlip

SpecReload == InitReload /\ [][NextReload]_vars

\* start() and its start-up cycle at every hour of the day, under every
\* persisted quiet window.
InitInterval ==
    /\ now = 0
    /\ hour \in Hours
    /\ dbUp = TRUE
    /\ shared = TRUE
    /\ env_hook = 1
    /\ \E a \in Hours, b \in Hours :
          db_config = <<RuntimeConfig(NotificationConfig(TRUE, 1, TRUE),
                                      ScrapeConfig(TRUE, 2, 12, 2, a, b),
                                      TranslateConfig(TRUE))>>
    /\ config = DefaultConfig
    /\ api_config = DefaultConfig
    /\ posts = {}
    /\ scrape_logs = <<>>
    /\ phase = "init"
    /\ scheduler = "none"
    /\ api_req = <<>>
    /\ is_first_run = TRUE
    /\ current_interval = EnvNormalInterval
    /\ feishu = 0
    /\ job = <<>>
    /\ cyc = [c \in Cycles |-> Idle]
    /\ ev = [kind |-> "none"]

NextInterval ==
    \/ Start
    \/ \E c \in Cycles, api \in SmallResponses : FetchReturn(c, api)

SpecInterval == InitInterval /\ [][NextInterval]_vars

\* ================================================================ claims
\* The step in which the fetch returned to execution c.
FetchStep(c) ==
    /\ cyc[c].pc = "fetching"
    /\ ev'.kind = "fetched"
    /\ ev'.c = c
    /\ cyc'[c].pc # "fetching"

\* The step in which the push returned to execution c.
PushStep(c) ==
    /\ cyc[c].pc = "pushing"
    /\ ev'.kind = "pushed"
    /\ ev'.c = c
    /\ cyc'[c].pc # "pushing"

\* C1 as claimed: a cycle whose fetch call fails appends a scrape log entry with
\* status failed, and get_last_scrape_time returns after it what it returned
\* before.
C1_FailedFetchLoggedFailed ==
    [][\A c \in Cycles :
          (FetchStep(c) /\ ~ev'.fetch_ok) =>
              /\ scrape_logs' = Append(scrape_logs, [status |-> "failed", finished_at |-> now])
              /\ get_last_scrape_time(scrape_logs') = get_last_scrape_time(scrape_logs)]_vars

\* C2: the decision taken at time t with last successful scrape T and minimum
\* gap G is skip exactly when t - T < G, and run when there is no successful
\* scrape log entry.
C2_MinGapDecision ==
    (ev.kind = "decide" /\ ~ev.raised) =>
        (ev.skip <=> (ev.last # <<>> /\ ev.at - ev.last[1] < ev.gap))

\* C2's case: a decision one time unit before the gap of 2 has passed, skipped.
C2_Witness ==
    /\ ev.kind = "decide"
    /\ ~ev.raised
    /\ ev.last # <<>>
    /\ ev.gap = 2
    /\ ev.at = ev.last[1] + ev.gap - 1
    /\ ev.skip

\* C3: a push that returns non-success (or raises) changes no row, the rows it
\* was sent for that were unnotified are returned by the next
\* get_unnotified_posts call, and the step that hands rows to the notifier
\* leaves them unnotified: rows are marked only in the step after a successful
\* push.
C3_AtLeastOnceNotify ==
    [][\A c \in Cycles :
          /\ (PushStep(c) /\ ~ev'.ok) =>
                /\ posts' = posts
                /\ {r \in posts : r.id \in cyc[c].sel /\ ~r.notified}
                       \subseteq get_unnotified_posts(posts', NotifyLimit)
          /\ (PushStep(c) /\ posts' # posts) => ev'.ok
          /\ (FetchStep(c) /\ cyc'[c].pc = "pushing") =>
                \A r \in posts' : r.id \in cyc'[c].sel => ~r.notified]_vars

\* C3's case: a push for some rows has failed and a row it was sent for is
\* still unnotified.
C3_Witness ==
    /\ ev.kind = "pushed"
    /\ ~ev.ok
    /\ \E r \in posts : r.id \in ev.sel /\ ~r.notified

\* C4 as claimed: a cycle that runs with is_first_run true and inserts N >= 1
\* new posts does not invoke the notifier and ends with the N rows notified.
C4_BacklogSuppressed ==
    (ev.kind = "fetched" /\ ev.first_run /\ ev.new_count >= 1) =>
        /\ ev.class # "notify"
        /\ cyc[ev.c].pc # "pushing"
        /\ \A r \in posts : r.post_id \in ev.new_ids => r.notified

\* C5 as claimed: with no successful scrape logged the start-up decision is run,
\* and, the store being empty, is_first_run goes from true to false only in a
\* step that inserted new rows and suppressed them as backlog.
C5_WarmOnlyAfterSuppression ==
    [][/\ (phase = "init" /\ Scheduling' /\ config'.scrape.scrape_enabled
              /\ get_last_scrape_time(scrape_logs) = <<>>)
          => cyc'["boot"].pc = "fetching"
       /\ (is_first_run /\ ~is_first_run' /\ posts = {})
          => (ev'.kind = "fetched" /\ ev'.new_count > 0
                 /\ ev'.class = "suppressAsBacklog")]_vars

\* An hour the process started in that is outside every quiet window the
\* configurations of the model have: current_interval was a normal interval
\* when the monitor started and the hour has not left the normal window since.
InNormalWindowThroughout ==
    /\ hour \in StartHours
    /\ ~is_trump_sleeping(DefaultConfig, hour)
    /\ \A p \in ScrapePayloads : ~is_trump_sleeping(RuntimeConfig(DefaultConfig.notification, p, DefaultConfig.translate), hour)
    /\ \A i \in 1..Len(db_config) : ~is_trump_sleeping(db_config[i], hour)

\* C6 as claimed: the persisted normal interval having been changed through the
\* save path while the hour is in the normal window, the reload tick leaves
\* current_interval at the persisted normal interval and the scrape job armed
\* with it, without a scrape cycle in between.
C6_ReloadReconcilesInterval ==
    [][(ReloadTick /\ dbUp /\ db_config # <<>> /\ InNormalWindowThroughout)
       => /\ current_interval' = db_config[1].scrape.normal_scrape_interval
          /\ job # <<>> => job'[1].period = db_config[1].scrape.normal_scrape_interval]_vars

\* The interval the half-open quiet window gives at hour h.
HalfOpenInterval(c, h) ==
    IF h \in c.scrape.trump_sleep_start_hour..(c.scrape.trump_sleep_end_hour - 1)
    THEN c.scrape.sleep_scrape_interval
    ELSE c.scrape.normal_scrape_interval

\* C7: after start() has set the interval, it is the quiet interval exactly when
\* quiet_start <= hour < quiet_end; with the window 0..7 hour 6 is quiet and
\* hour 7 normal; with quiet_start = quiet_end no hour is quiet.
C7_QuietWindowHalfOpen ==
    (phase = "booting" /\ ev.kind = "decide") =>
        /\ current_interval = HalfOpenInterval(config, hour)
        /\ (config.scrape.trump_sleep_start_hour = 0
               /\ config.scrape.trump_sleep_end_hour = 7 /\ hour = 6)
           => current_interval = config.scrape.sleep_scrape_interval
        /\ (config.scrape.trump_sleep_start_hour = 0
               /\ config.scrape.trump_sleep_end_hour = 7 /\ hour = 7)
           => current_interval = config.scrape.normal_scrape_interval
        /\ config.scrape.trump_sleep_start_hour = config.scrape.trump_sleep_end_hour
           => current_interval = config.scrape.normal_scrape_interval

\* C7's case: start() at hour 6 under the window 0..7 took the quiet interval.
C7_Witness ==
    /\ phase = "booting"
    /\ ev.kind = "decide"
    /\ config.scrape.trump_sleep_start_hour = 0
    /\ config.scrape.trump_sleep_end_hour = 7
    /\ hour = 6
    /\ current_interval = config.scrape.sleep_scrape_interval
    /\ current_interval # config.scrape.normal_scrape_interval

\* C8 as claimed: after a cycle has submitted a page to save_posts_batch, the
\* storage being reachable, every post_id of the page has exactly one row, an
\* id that had a row before is not counted as new, and the rows counted as new
\* are those of the submitted ids that had none.
C8_OneRowPerSubmittedId ==
    [][\A c \in Cycles :
          (FetchStep(c) /\ dbUp) =>
              /\ \A pid \in ev'.submitted :
                     Cardinality({r \in posts' : r.post_id = pid}) = 1
              /\ \A pid \in ev'.submitted :
                     (\E r \in posts : r.post_id = pid) => pid \notin ev'.new_ids
              /\ ev'.new_count =
                     Cardinality({pid \in ev'.submitted : \A r \in posts : r.post_id # pid})]_vars

\* C9 as claimed, for its containment: no exception leaves scrape_and_notify,
\* whichever collaborator raised, and the monitor goes on scheduling after the
\* cycle.
C9_CycleExceptionsContained ==
    /\ ev.kind = "decide" => ~ev.raised
    /\ ev.kind = "fetched" => (~ev.escaped /\ Scheduling)

\* C10 as claimed: the start-up execution of scrape_and_notify and one fired by
\* the timer are never in progress at once.
C10_CyclesNeverOverlap ==
    ~(cyc["boot"].pc # "idle" /\ cyc["timer"].pc # "idle")

\* C11 as claimed: a configuration write whose save fails (the REST request is
\* answered with an error) leaves the configuration the monitor works with as
\* it was before the request.
C11_RejectedWriteKeepsConfig ==
    [][/\ \A p \in ScrapePayloads :
             (Scheduling /\ ApiUpdateScrape(p) /\ ~dbUp) => config' = config
       /\ \A p \in NotificationPayloads :
             (Scheduling /\ ApiUpdateNotification(p) /\ ~dbUp) => config' = config]_vars

\* C12: a manual push-report request whose push did not succeed, of whatever
\* report type, leaves every row of the store as it was, its notified flag
\* included.
C12_FailedManualPushMarksNothing ==
    [][\A rt \in ReportTypes, cutoff \in 1..(MaxPosts + 1), out \in PushOutcomes :
          (ApiPushReport(rt, cutoff, out) /\ out # "ok") =>
              /\ {r.id : r \in posts'} = {r.id : r \in posts}
              /\ \A r \in posts, q \in posts' : r.id = q.id => q.notified = r.notified]_vars

\* C12's case: a manual push of a report with rows in its range has failed and
\* the store holds an unnotified row.
C12_Witness ==
    /\ ev.kind = "report"
    /\ ev.called
    /\ ~ev.success
    /\ ~ev.range_empty
    /\ \E r \in posts : ~r.notified

\* The answers push_report gives when the range of the report holds no post.
NothingToSend ==
    {[status |-> 200, success |-> TRUE, message |-> m] : m \in {"daily_none", "weekly_none"}}

\* C13: the answer to a manual report request whose push failed (the client's
\* send method was called and did not return success) is none of the answers
\* given when the range holds no post, and an empty range is answered with one
\* of those.
C13_FailureDistinctFromNothing ==
    ev.kind = "report" =>
        /\ (ev.called /\ ev.out # "ok") =>
              [status |-> ev.status, success |-> ev.success, message |-> ev.message]
                  \notin NothingToSend
        /\ (ev.called /\ ev.type = "weekly") => ev.status = 500
        /\ (ev.message \in {"daily_none", "weekly_none"}) => (ev.range_empty /\ ~ev.called)

\* C13's case: a daily report with posts in its range whose push returned
\* failure, answered with success false.
C13_Witness ==
    /\ ev.kind = "report"
    /\ ev.type = "daily"
    /\ ev.called
    /\ ev.out = "fail"
    /\ ~ev.range_empty
    /\ ev.status = 200
    /\ ~ev.success

\* C14: once stop() has completed, no scrape job fires, no reload tick runs and
\* no execution of scrape_and_notify begins.
C14_NoTimerAfterStop ==
    [][phase = "stopped" =>
          /\ ~TimerFire
          /\ ~ReloadTick
          /\ \A c \in Cycles : cyc[c].pc = "idle" => cyc'[c].pc = "idle"]_vars

\* C14's case: stop() has completed and the time of the scrape job's next run
\* has passed.
C14_Witness ==
    /\ phase = "stopped"
    /\ job # <<>>
    /\ job[1].next < now

\* C15 as claimed: a reload tick that finds the configuration unchanged while
\* the hour of day has moved the target interval away from current_interval
\* sets current_interval to the target and rearms the scrape job.
C15_ReloadReconcilesHour ==
    [][(/\ ReloadTick
        /\ dbUp
        /\ load_from_db(config, db_config, dbUp, env_hook).mem = config
        /\ current_interval # get_current_interval(config, hour))
       => /\ current_interval' = get_current_interval(config, hour)
          /\ job' = reschedule_job(job, get_current_interval(config, hour), now)]_vars

\* C16 as claimed: the store holding posts when the process starts (no cycle
\* has logged anything since), the start-up cycle that inserts new posts, with a
\* notifier client and real-time pushes enabled, reads is_first_run false when
\* it classifies and classifies them notify.
C16_WarmStartOnNonEmptyStore ==
    [][(/\ FetchStep("boot")
        /\ posts # {}
        /\ scrape_logs = SuccessAtZero
        /\ ev'.new_count > 0
        /\ feishu # 0
        /\ config.notification.realtime_enabled)
       => /\ ~is_first_run
          /\ ev'.class = "notify"]_vars

\* C17 as claimed: the execution that suppresses its new rows as backlog leaves
\* is_first_run false, whichever of the start-up call and the scrape job ran it,
\* and is_first_run never goes from false to true.
C17_SuppressionClearsFirstRun ==
    [][/\ \A c \in Cycles :
             (FetchStep(c) /\ ev'.class = "suppressAsBacklog") => ~is_first_run'
       /\ ~is_first_run => ~is_first_run']_vars

\* C18 as claimed: an execution that classifies its new rows suppressAsBacklog
\* or suppressDisabled leaves every row that was unnotified before it
\* unnotified.
C18_SuppressionMarksOnlyNewRows ==
    [][\A c \in Cycles :
          (FetchStep(c) /\ ev'.class \in {"suppressAsBacklog", "suppressDisabled"}) =>
              \A r \in posts : ~r.notified =>
                  \E q \in posts' : q.id = r.id /\ ~q.notified]_vars

\* C19 as claimed: every execution that inserted new rows classifies them as
\* exactly one of notify, suppressAsBacklog and suppressDisabled, whatever the
\* notifier client, and with is_first_run true the new rows end notified with
\* no push.
C19_ClassificationTotal ==
    (ev.kind = "fetched" /\ ev.new_count > 0) =>
        /\ ev.class \in {"notify", "suppressAsBacklog", "suppressDisabled"}
        /\ ev.class = (IF ~config.notification.realtime_enabled THEN "suppressDisabled"
                       ELSE IF ev.first_run THEN "suppressAsBacklog"
                       ELSE "notify")
        /\ ev.first_run =>
              /\ cyc[ev.c].pc # "pushing"
              /\ \A r \in posts : r.post_id \in ev.new_ids => r.notified

\* C20 as claimed: with a notifier client and real-time pushes enabled, while
\* the scrape job keeps firing, its cycles keep ending in success and pushes
\* succeed in the end, every row that is unnotified is notified at some later
\* time.
C20_UnnotifiedEventuallyNotified ==
    (/\ []<>(ev.kind = "fetched" /\ ev.c = "timer" /\ ev.logged = "success")
     /\ <>[](feishu # 0 /\ config.notification.realtime_enabled))
    => \A i \in PostIds :
          (\E r \in posts : r.id = i /\ ~r.notified)
              ~> (\E r \in posts : r.id = i /\ r.notified)

\* C21 as claimed: a fetch request answered 429 is the last request of its
\* cycle's fetch.
C21_RateLimitedNotRetried ==
    ev.kind = "request" =>
        \A i \in 1..Len(ev.answers) : ev.answers[i] = "429" => i = Len(ev.answers)

\* C22 as claimed: a REST config update that answers success has persisted its
\* own payload: the section it wrote is, in the persisted row, the one of the
\* request, whatever the reload tick did in between.
C22_SuccessfulUpdateIsPersisted ==
    [][(ApiUpdateSave /\ ev'.ok) =>
          /\ db_config' # <<>>
          /\ db_config'[1][api_req[1].section] = api_req[1].payload]_vars

C24_OneLogEntryPerCycle ==
    [][\A c \in Cycles :
          /\ FetchStep(c) =>
                /\ Len(scrape_logs') = Len(scrape_logs) + 1
                /\ SubSeq(scrape_logs', 1, Len(scrape_logs)) = scrape_logs
                /\ scrape_logs'[Len(scrape_logs')].status \in {"success", "failed"}
          /\ PushStep(c) => scrape_logs' = scrape_logs
          /\ (ev'.kind = "decide" /\ ev' # ev) => scrape_logs' = scrape_logs]_vars

\* C25 as claimed: the last thing the monitor did being a reload tick that loaded
\* a configuration with scrape_enabled false, no execution of scrape_and_notify
\* reaches its fetch.
C25_DisabledScrapeStopsCycles ==
    [][(/\ ev.kind = "reload"
        /\ ev.ok
        /\ ~config.scrape.scrape_enabled)
       => \A c \in Cycles : ~(cyc[c].pc = "idle" /\ cyc'[c].pc = "fetching")]_vars

\* C26 as claimed: a reload tick or a firing of the scrape job leaves
\* current_interval equal to the period the scrape job is armed with, and
\* where it was when there is no scrape job to rearm.
C26_IntervalMatchesArmedPeriod ==
    [][(ReloadTick \/ TimerFire) =>
          IF job' = <<>> THEN current_interval' = current_interval
          ELSE job'[1].period = current_interval']_vars

\* C27 as claimed: a saved REST update of one section leaves the other sections
\* of the persisted row as they were persisted.
C27_UpdateKeepsOtherSections ==
    [][/\ \A p \in ScrapePayloads :
             (ApiUpdateScrape(p) /\ dbUp /\ db_config # <<>>) =>
                 /\ db_config'[1].notification = db_config[1].notification
                 /\ db_config'[1].translate = db_config[1].translate
       /\ \A p \in NotificationPayloads :
             (ApiUpdateNotification(p) /\ dbUp /\ db_config # <<>>) =>
                 /\ db_config'[1].scrape = db_config[1].scrape
                 /\ db_config'[1].translate = db_config[1].translate]_vars

\* C28: a cycle that fetches a post the store already holds keeps the row and
\* its translation and analysis as they were, and keeps its notified flag as it
\* was unless the same cycle marks the whole store as already notified.
C28_RefetchKeepsLocalFields ==
    [][\A c \in Cycles : FetchStep(c) =>
          \A r \in posts : r.post_id \in ev'.submitted =>
              \E q \in posts' :
                  /\ q.id = r.id
                  /\ q.post_id = r.post_id
                  /\ q.translated_content = r.translated_content
                  /\ q.llm_analysis = r.llm_analysis
                  /\ (ev'.class \in {"none", "notify"} => q.notified = r.notified)]_vars

\* C28 witness: a notified, translated and analysed row was fetched again with
\* a changed engagement counter, in a cycle that stored no new row.
C28_Witness ==
    /\ ev.kind = "fetched"
    /\ ev.class = "none"
    /\ ~ev.escaped
    /\ \E r \in posts :
          /\ r.post_id \in ev.submitted
          /\ r.eng = 1
          /\ r.notified /\ r.translated_content /\ r.llm_analysis

\* C29: a row that is notified is still there and still notified after every
\* step of a cycle, of the reload tick and of the REST API.
C29_NotifiedIsMonotone ==
    [][\A r \in posts : r.notified => \E q \in posts' : q.id = r.id /\ q.notified]_vars

\* C29 witness: a row that this run marked as notified was fetched again by a
\* later cycle, which stored no new row.
C29_Witness ==
    /\ ev.kind = "fetched"
    /\ ev.new_count = 0
    /\ \E r \in posts : r.notified /\ ~r.translated_content /\ r.post_id \in ev.submitted

\* C30: a reload tick whose load fails leaves the active configuration as it
\* was, and neither rearms the scrape job nor replaces the notifier client.
C30_FailedReloadChangesNothing ==
    [][(ReloadTick /\ ~ev'.ok) =>
          /\ config' = config
          /\ job' = job
          /\ current_interval' = current_interval
          /\ feishu' = feishu]_vars

\* C30 witness: the reload failed on an unreachable database while the
\* persisted intervals differ from the active ones.
C30_Witness ==
    /\ ev.kind = "reload"
    /\ ~ev.ok
    /\ ev.row # <<>>
    /\ ev.row[1] # Unparseable
    /\ ev.row[1].scrape.normal_scrape_interval # config.scrape.normal_scrape_interval
====
